---------------------------- MODULE Spec2Model ----------------------------
(***************************************************************************)
(* Model of the varlock GitHub action (src/src/index.ts).                  *)
(*                                                                         *)
(* Texts (subprocess stdout, variable names, exported values) are          *)
(* sequences of one-character strings, so that JSON.parse, String(),       *)
(* JSON.stringify and the /error/gi match are computed on the characters.  *)
(* A JavaScript value is a record [t, s, kids]: t is its type, s the       *)
(* characters of a string, number or boolean, kids the ordered members of  *)
(* an object (k = key) or array (k = <<>>).                                *)
(***************************************************************************)
EXTENDS Integers, Sequences, FiniteSets, TLC

\* ------------------------------------------------------------------------
\* Bounds of the explored input space
\* ------------------------------------------------------------------------
MaxEntries == 2

\* longest config that is also produced with non-empty sources and settings
MaxEntriesWithSources == 1

\* ------------------------------------------------------------------------
\* JavaScript values
\* ------------------------------------------------------------------------
JUndef == [t |-> "undef", s |-> <<>>, kids |-> <<>>]

JNull == [t |-> "null", s |-> <<>>, kids |-> <<>>]

JStr(s) == [t |-> "str", s |-> s, kids |-> <<>>]

JNum(s) == [t |-> "num", s |-> s, kids |-> <<>>]

JBool(b) == [t |-> "bool", s |-> IF b THEN <<"t","r","u","e">> ELSE <<"f","a","l","s","e">>, kids |-> <<>>]

JObj(kids) == [t |-> "obj", s |-> <<>>, kids |-> kids]

JArr(kids) == [t |-> "arr", s |-> <<>>, kids |-> kids]

Quote == "\""

Proto == <<"_","_","p","r","o","t","o","_","_">>

\* obj[key] read: own property or undefined
Get(obj, key) ==
  IF obj.t = "obj" /\ \E i \in 1..Len(obj.kids) : obj.kids[i].k = key
  THEN obj.kids[CHOOSE i \in 1..Len(obj.kids) : obj.kids[i].k = key].v
  ELSE JUndef

\* own data property definition as JSON.parse does it (CreateDataProperty):
\* an existing key keeps its position and takes the new value.  Keys are kept
\* in the order of the text; integer-like keys, which an object would
\* enumerate first, are not among the generated keys.
DefineProp(kids, key, val) ==
  IF \E i \in 1..Len(kids) : kids[i].k = key
  THEN [i \in 1..Len(kids) |-> IF kids[i].k = key THEN [k |-> key, v |-> val] ELSE kids[i]]
  ELSE Append(kids, [k |-> key, v |-> val])

\* obj[key] = val on an ordinary object literal: the key "__proto__" reaches
\* the accessor inherited from Object.prototype and creates no own property
SetProp(kids, key, val) ==
  IF key = Proto THEN kids ELSE DefineProp(kids, key, val)

\* Object.entries(obj): own enumerable members in order
ObjectEntries(obj) == obj.kids

\* ToBoolean, as used by `if (envGraph)` and `if (error.stdout)`
Truthy(v) ==
  CASE v.t = "undef" -> FALSE
    [] v.t = "null" -> FALSE
    [] v.t = "bool" -> v.s = <<"t","r","u","e">>
    [] v.t = "num" -> v.s # <<"0">>
    [] v.t = "str" -> v.s # <<>>
    [] OTHER -> TRUE

\* value !== undefined && value !== null
IsPresent(v) == v.t # "undef" /\ v.t # "null"

RECURSIVE JoinElems(_)
\* String(value)
String(v) ==
  CASE v.t = "undef" -> <<"u","n","d","e","f","i","n","e","d">>
    [] v.t = "null" -> <<"n","u","l","l">>
    [] v.t = "obj" -> <<"[","o","b","j","e","c","t"," ","O","b","j","e","c","t","]">>
    [] v.t = "arr" -> JoinElems(v.kids)
    [] OTHER -> v.s

JoinElems(kids) ==
  IF kids = <<>> THEN <<>>
  ELSE LET h == IF IsPresent(kids[1].v) THEN String(kids[1].v) ELSE <<>>
       IN IF Len(kids) = 1 THEN h ELSE h \o <<",">> \o JoinElems(Tail(kids))

\* ------------------------------------------------------------------------
\* JSON.parse
\* ------------------------------------------------------------------------
Ws == {" ", "\n", "\t", "\r"}

Digits == {"0","1","2","3","4","5","6","7","8","9"}

ParseFail == [ok |-> FALSE, val |-> JUndef, next |-> 0]

ParseOk(v, n) == [ok |-> TRUE, val |-> v, next |-> n]

RECURSIVE SkipWs(_, _)
SkipWs(t, i) == IF i <= Len(t) /\ t[i] \in Ws THEN SkipWs(t, i + 1) ELSE i

RECURSIVE FindQuote(_, _)
FindQuote(t, j) ==
  IF j > Len(t) THEN 0 ELSE IF t[j] = Quote THEN j ELSE FindQuote(t, j + 1)

RECURSIVE DigitsEnd(_, _)
DigitsEnd(t, j) == IF j <= Len(t) /\ t[j] \in Digits THEN DigitsEnd(t, j + 1) ELSE j

StartsAt(t, i, w) == i + Len(w) - 1 <= Len(t) /\ SubSeq(t, i, i + Len(w) - 1) = w

ParseString(t, i) ==
  LET j == FindQuote(t, i + 1)
  IN IF j = 0 THEN ParseFail ELSE ParseOk(JStr(SubSeq(t, i + 1, j - 1)), j + 1)

ParseNumber(t, i) ==
  LET j == DigitsEnd(t, i)
  IN IF t[i] = "0" /\ j > i + 1 THEN ParseFail ELSE ParseOk(JNum(SubSeq(t, i, j - 1)), j)

ParseLiteral(t, i) ==
  CASE StartsAt(t, i, <<"t","r","u","e">>) -> ParseOk(JBool(TRUE), i + 4)
    [] StartsAt(t, i, <<"f","a","l","s","e">>) -> ParseOk(JBool(FALSE), i + 5)
    [] StartsAt(t, i, <<"n","u","l","l">>) -> ParseOk(JNull, i + 4)
    [] OTHER -> ParseFail

RECURSIVE ParseValue(_, _), ParseMembers(_, _, _), ParseElements(_, _, _)
ParseValue(t, i0) ==
  LET i == SkipWs(t, i0)
  IN IF i > Len(t) THEN ParseFail
     ELSE CASE t[i] = "{" ->
                 LET j == SkipWs(t, i + 1)
                 IN IF j <= Len(t) /\ t[j] = "}" THEN ParseOk(JObj(<<>>), j + 1)
                    ELSE ParseMembers(t, j, <<>>)
            [] t[i] = "[" ->
                 LET j == SkipWs(t, i + 1)
                 IN IF j <= Len(t) /\ t[j] = "]" THEN ParseOk(JArr(<<>>), j + 1)
                    ELSE ParseElements(t, j, <<>>)
            [] t[i] = Quote -> ParseString(t, i)
            [] t[i] \in Digits -> ParseNumber(t, i)
            [] OTHER -> ParseLiteral(t, i)

ParseMembers(t, i0, acc) ==
  LET i == SkipWs(t, i0)
  IN IF i > Len(t) \/ t[i] # Quote THEN ParseFail
     ELSE LET key == ParseString(t, i)
          IN IF ~key.ok THEN ParseFail
             ELSE LET c == SkipWs(t, key.next)
                  IN IF c > Len(t) \/ t[c] # ":" THEN ParseFail
                     ELSE LET val == ParseValue(t, c + 1)
                          IN IF ~val.ok THEN ParseFail
                             ELSE LET e == SkipWs(t, val.next)
                                      acc2 == DefineProp(acc, key.val.s, val.val)
                                  IN IF e > Len(t) THEN ParseFail
                                     ELSE IF t[e] = "," THEN ParseMembers(t, e + 1, acc2)
                                     ELSE IF t[e] = "}" THEN ParseOk(JObj(acc2), e + 1)
                                     ELSE ParseFail

ParseElements(t, i0, acc) ==
  LET val == ParseValue(t, i0)
  IN IF ~val.ok THEN ParseFail
     ELSE LET e == SkipWs(t, val.next)
              acc2 == Append(acc, [k |-> <<>>, v |-> val.val])
          IN IF e > Len(t) THEN ParseFail
             ELSE IF t[e] = "," THEN ParseElements(t, e + 1, acc2)
             ELSE IF t[e] = "]" THEN ParseOk(JArr(acc2), e + 1)
             ELSE ParseFail

\* JSON.parse(text): ok = FALSE stands for the SyntaxError it throws
JSONParse(text) ==
  LET r == ParseValue(text, 1)
  IN IF r.ok /\ SkipWs(text, r.next) > Len(text) THEN r ELSE ParseFail

\* ------------------------------------------------------------------------
\* JSON.stringify(value, null, 2)
\* ------------------------------------------------------------------------
RECURSIVE Spaces(_)
Spaces(n) == IF n = 0 THEN <<>> ELSE <<" ">> \o Spaces(n - 1)

RECURSIVE DropUndef(_)
\* members whose value is undefined are left out of a serialized object
DropUndef(kids) ==
  IF kids = <<>> THEN <<>>
  ELSE IF kids[1].v.t = "undef" THEN DropUndef(Tail(kids))
  ELSE <<kids[1]>> \o DropUndef(Tail(kids))

RECURSIVE JSONStringify(_, _), StringifyMembers(_, _, _)
JSONStringify(v, ind) ==
  CASE v.t = "str" -> <<Quote>> \o v.s \o <<Quote>>
    [] v.t = "num" -> v.s
    [] v.t = "bool" -> v.s
    [] v.t = "obj" ->
         LET ms == DropUndef(v.kids)
         IN IF ms = <<>> THEN <<"{", "}">>
            ELSE <<"{", "\n">> \o StringifyMembers(ms, ind + 2, TRUE) \o <<"\n">> \o Spaces(ind) \o <<"}">>
    [] v.t = "arr" ->
         IF v.kids = <<>> THEN <<"[", "]">>
         ELSE <<"[", "\n">> \o StringifyMembers(v.kids, ind + 2, FALSE) \o <<"\n">> \o Spaces(ind) \o <<"]">>
    [] OTHER -> <<"n","u","l","l">>

StringifyMembers(ms, ind, named) ==
  LET m == ms[1]
      one == Spaces(ind)
             \o (IF named THEN <<Quote>> \o m.k \o <<Quote, ":", " ">> ELSE <<>>)
             \o JSONStringify(m.v, ind)
  IN IF Len(ms) = 1 THEN one
     ELSE one \o <<",", "\n">> \o StringifyMembers(Tail(ms), ind, named)

\* ------------------------------------------------------------------------
\* (output.match(/error/gi) || []).length  and  Number.prototype.toString
\* ------------------------------------------------------------------------
MatchesErrorAt(t, i) ==
  /\ i + 4 <= Len(t)
  /\ t[i] \in {"e", "E"}
  /\ t[i + 1] \in {"r", "R"}
  /\ t[i + 2] \in {"r", "R"}
  /\ t[i + 3] \in {"o", "O"}
  /\ t[i + 4] \in {"r", "R"}

\* position of the leftmost match at or after i, 0 when there is none
NextErrorMatch(t, i) ==
  IF \E j \in i..Len(t) : MatchesErrorAt(t, j)
  THEN CHOOSE j \in i..Len(t) : MatchesErrorAt(t, j) /\ \A h \in i..(j - 1) : ~MatchesErrorAt(t, h)
  ELSE 0

RECURSIVE CountErrorFrom(_, _)
\* a global match resumes right after the previous match
CountErrorFrom(t, i) ==
  LET j == NextErrorMatch(t, i)
  IN IF j = 0 THEN 0 ELSE 1 + CountErrorFrom(t, j + 5)

CountError(t) == CountErrorFrom(t, 1)

DigitChar(d) ==
  CASE d = 0 -> "0" [] d = 1 -> "1" [] d = 2 -> "2" [] d = 3 -> "3" [] d = 4 -> "4"
    [] d = 5 -> "5" [] d = 6 -> "6" [] d = 7 -> "7" [] d = 8 -> "8" [] d = 9 -> "9"

RECURSIVE NumToString(_)
NumToString(n) ==
  IF n < 10 THEN <<DigitChar(n)>> ELSE NumToString(n \div 10) \o <<DigitChar(n % 10)>>

\* ------------------------------------------------------------------------
\* Property names and texts used by the action
\* ------------------------------------------------------------------------
cConfig == <<"c","o","n","f","i","g">>

cValue == <<"v","a","l","u","e">>

cIsSensitive == <<"i","s","S","e","n","s","i","t","i","v","e">>

cSources == <<"s","o","u","r","c","e","s">>

cSettings == <<"s","e","t","t","i","n","g","s">>

DotEnv == <<".","e","n","v">>

DotEnvDot == <<".","e","n","v",".">>

\* ------------------------------------------------------------------------
\* What the validator subprocess and the file system can hand to the action
\* ------------------------------------------------------------------------
Keys == {<<"A">>, <<"E","r","r","o","r">>, Proto}

PresentValues == {JStr(<<"s">>), JNum(<<"0">>)}

Info(val, sens) == JObj(<<[k |-> cValue, v |-> val], [k |-> cIsSensitive, v |-> JBool(sens)]>>)

InfoNoValue(sens) == JObj(<<[k |-> cIsSensitive, v |-> JBool(sens)]>>)

Infos == {Info(v, b) : v \in PresentValues, b \in BOOLEAN} \cup {InfoNoValue(TRUE), Info(JNull, FALSE)}

ConfigsOfLen(n) ==
  {c \in [1..n -> [k : Keys, v : Infos]] : \A i, j \in 1..n : i # j => c[i].k # c[j].k}

Configs == UNION {ConfigsOfLen(n) : n \in 0..MaxEntries}

PlainSources == <<JArr(<<>>), JObj(<<>>)>>

RichSources ==
  <<JArr(<<[k |-> <<>>, v |-> JObj(<<[k |-> <<"l","a","b","e","l">>, v |-> JStr(DotEnv)],
                                      [k |-> <<"e","n","a","b","l","e","d">>, v |-> JBool(TRUE)]>>)]>>),
    JObj(<<[k |-> <<"r","e","d","a","c","t","L","o","g","s">>, v |-> JBool(TRUE)]>>)>>

SerializedEnvGraph(ss, cfg) ==
  JObj(<<[k |-> cSources, v |-> ss[1]], [k |-> cSettings, v |-> ss[2]], [k |-> cConfig, v |-> JObj(cfg)]>>)

Graphs ==
  {SerializedEnvGraph(PlainSources, cfg) : cfg \in Configs}
  \cup {SerializedEnvGraph(RichSources, cfg) : cfg \in UNION {ConfigsOfLen(n) : n \in 0..MaxEntriesWithSources}}

\* texts that are not a serialized graph: human-readable lines, a truncated
\* document, and JSON documents of another shape
OtherTexts ==
  { <<"o","k","\n">>,
    <<"E","r","r","o","r",":"," ","A"," ","e","r","r","o","r","\n">>,
    <<"{", Quote, "c","o","n","f","i","g", Quote>>,
    <<"{", "}">>,
    <<"n","u","l","l">> }

Render(g) == JSONStringify(g, 0) \o <<"\n">>

HumanTexts == {<<"o","k","\n">>, <<"E","r","r","o","r",":"," ","A"," ","e","r","r","o","r","\n">>}

\* What one load subprocess does: resolved is the Result Graph the validator
\* resolved from the env files (undefined when it resolved none), exitZero its
\* exit status, stdout what execSync captured (null when nothing was captured).
\* `varlock load --format json-full` prints the resolved graph:
MachineOutcomes ==
  {[resolved |-> g, exitZero |-> z, stdout |-> JStr(Render(g))] : g \in Graphs, z \in BOOLEAN}
  \cup {[resolved |-> JUndef, exitZero |-> z, stdout |-> JStr(t)] : t \in OtherTexts \cup {<<>>}, z \in BOOLEAN}
  \cup {[resolved |-> JUndef, exitZero |-> FALSE, stdout |-> JNull]}

SummaryGraphs ==
  {SerializedEnvGraph(ss, cfg) : ss \in {PlainSources, RichSources},
                                 cfg \in UNION {ConfigsOfLen(n) : n \in 0..MaxEntriesWithSources}}

\* `varlock load` prints human-readable text:
SummaryOutcomes ==
  {[resolved |-> g, exitZero |-> z, stdout |-> JStr(t)] : g \in SummaryGraphs, t \in HumanTexts, z \in BOOLEAN}
  \cup {[resolved |-> JUndef, exitZero |-> FALSE, stdout |-> s] : s \in {JStr(<<>>), JNull, JStr(<<"o","k","\n">>)}}

FileNames == {DotEnv, DotEnvDot \o <<"x">>, DotEnv \o <<"r","c">>, <<"e","n","v">>}

Listings == {<<>>} \cup {<<f>> : f \in FileNames} \cup {<<f, g>> : f, g \in FileNames}

RawInputs ==
  [ workingDirectory : {""},
    showSummary : {"", "true"},
    failOnError : {"", "true"},
    outputFormat : {"", "json", "yaml"} ]

\* ------------------------------------------------------------------------
\* Calls to the host platform (@actions/core), in the order they are made.
\* core.info lines are not recorded, except the export counts.
\* ------------------------------------------------------------------------
SetSecret(value) == [op |-> "setSecret", name |-> <<>>, value |-> value, lit |-> ""]

ExportVariable(name, value) == [op |-> "exportVariable", name |-> name, value |-> value, lit |-> ""]

SetOutput(lit, value) == [op |-> "setOutput", name |-> <<>>, value |-> value, lit |-> lit]

SetFailed(lit) == [op |-> "setFailed", name |-> <<>>, value |-> <<>>, lit |-> lit]

Warning(lit) == [op |-> "warning", name |-> <<>>, value |-> <<>>, lit |-> lit]

InfoExported(regularVars, secretVars) ==
  [op |-> "info", name |-> NumToString(regularVars), value |-> NumToString(secretVars), lit |-> "Exported"]

\* getInputs that falls back to env for every output format but json
getInputsUnknownFormatIsEnv(raw) ==
  [ workingDirectory |-> IF raw.workingDirectory = "" THEN "." ELSE raw.workingDirectory,
    showSummary |-> raw.showSummary = "true",
    failOnError |-> raw.failOnError = "true",
    outputFormat |-> IF raw.outputFormat = "json" THEN "json" ELSE "env" ]

\* getInputs that takes every non-empty flag value as true
getInputsNonEmptyIsTrue(raw) ==
  [ workingDirectory |-> IF raw.workingDirectory = "" THEN "." ELSE raw.workingDirectory,
    showSummary |-> raw.showSummary # "",
    failOnError |-> raw.failOnError # "",
    outputFormat |-> IF raw.outputFormat = "" THEN "env" ELSE raw.outputFormat ]

\* ------------------------------------------------------------------------
\* The functions of src/src/index.ts
\* ------------------------------------------------------------------------
getInputs(raw) ==
  [ workingDirectory |-> IF raw.workingDirectory = "" THEN "." ELSE raw.workingDirectory,
    showSummary |-> raw.showSummary = "true",
    failOnError |-> raw.failOnError = "true",
    outputFormat |-> IF raw.outputFormat = "" THEN "env" ELSE raw.outputFormat ]

\* outcome of `varlock --version`: execSync throws unless the exit status is 0
ProbeOutcomes == {"exit0", "nonzero", "enoent", "timeout"}

\* checkVarlockInstalled that takes only a missing binary as not installed
checkVarlockInstalledUnlessMissing(outcome) == outcome # "enoent"

checkVarlockInstalled(outcome) == outcome = "exit0"

\* IsEnvFile with the prefix test on '.env' instead of '.env.'
IsEnvFileAnyDotEnvPrefix(file) == file = DotEnv \/ StartsAt(file, 1, DotEnv)

IsEnvFile(file) == file = DotEnv \/ StartsAt(file, 1, DotEnvDot)

\* checkForEnvFiles whose catch clause marks the run failed instead of warning
checkForEnvFilesFailsRun(dir) ==
  IF ~dir.readable
  THEN [result |-> FALSE, calls |-> <<SetFailed("Error reading directory")>>]
  ELSE [result |-> \E i \in 1..Len(dir.files) : IsEnvFile(dir.files[i]), calls |-> <<>>]

\* dir = [readable, files]: readdirSync throws on an unreadable directory
checkForEnvFiles(dir) ==
  IF ~dir.readable
  THEN [result |-> FALSE, calls |-> <<Warning("Error reading directory")>>]
  ELSE [result |-> \E i \in 1..Len(dir.files) : IsEnvFile(dir.files[i]), calls |-> <<>>]

\* a subprocess started by execSync, with what came of it
Exec(cmd, exitZero, stdout) == [cmd |-> cmd, exitZero |-> exitZero, stdout |-> stdout]

NpmInstall == "npm install -g varlock"

CurlInstall == "curl -fsSL install.sh | sh"

\* installVarlock that runs the install script whether or not npm succeeded
installVarlockBothAlways(npmOk, curlOk) ==
  [ execs |-> <<Exec(NpmInstall, npmOk, JNull), Exec(CurlInstall, curlOk, JNull)>>,
    calls |-> IF npmOk \/ curlOk THEN <<>> ELSE <<SetFailed("Failed to install varlock")>> ]

installVarlock(npmOk, curlOk) ==
  IF npmOk THEN [execs |-> <<Exec(NpmInstall, TRUE, JNull)>>, calls |-> <<>>]
  ELSE IF curlOk
  THEN [execs |-> <<Exec(NpmInstall, FALSE, JNull), Exec(CurlInstall, TRUE, JNull)>>, calls |-> <<>>]
  ELSE [execs |-> <<Exec(NpmInstall, FALSE, JNull), Exec(CurlInstall, FALSE, JNull)>>,
        calls |-> <<SetFailed("Failed to install varlock")>>]

NoResult == [output |-> <<>>, errorCount |-> 0, envGraph |-> JUndef]

Returned(output, errorCount, envGraph, calls) ==
  [ threw |-> FALSE, calls |-> calls,
    result |-> [output |-> output, errorCount |-> errorCount, envGraph |-> envGraph] ]

Thrown == [threw |-> TRUE, calls |-> <<>>, result |-> NoResult]

LoadSummary == "varlock load"

LoadJsonFull == "varlock load --format json-full"

\* summaryCatch that returns the empty output instead of rethrowing
summaryCatchNoRethrow(stdout) ==
  IF Truthy(stdout)
  THEN Returned(stdout.s, CountError(stdout.s), JUndef, <<>>)
  ELSE Returned(<<>>, 0, JUndef, <<>>)

\* summaryCatch that reports no errors for the captured output
summaryCatchNoCount(stdout) ==
  IF Truthy(stdout)
  THEN Returned(stdout.s, 0, JUndef, <<>>)
  ELSE Thrown

\* catch clause of the summary-mode load; stdout is error.stdout
summaryCatch(stdout) ==
  IF Truthy(stdout)
  THEN Returned(stdout.s, CountError(stdout.s), JUndef, <<>>)
  ELSE Thrown

\* catch clause of the json-full load; it also catches the SyntaxError of
\* JSON.parse in the try block, which has no stdout property
machineCatch(stdout) ==
  IF Truthy(stdout)
  THEN LET parsed == JSONParse(stdout.s)
       IN IF parsed.ok THEN Returned(stdout.s, CountError(stdout.s), parsed.val, <<>>)
          ELSE Returned(stdout.s, CountError(stdout.s), JUndef,
                        <<SetFailed("Failed to parse varlock output.")>>)
  ELSE Thrown

\* the command runVarlockLoad runs
loadCommand(in) == IF in.showSummary THEN LoadSummary ELSE LoadJsonFull

\* runVarlockLoad that returns the raw text when a zero-exit output does not parse
runVarlockLoadReturnsRawText(in, exitZero, stdout) ==
  IF in.showSummary
  THEN IF exitZero THEN Returned(stdout.s, 0, JUndef, <<>>)
       ELSE summaryCatch(stdout)
  ELSE IF exitZero
       THEN LET parsed == JSONParse(stdout.s)
            IN IF parsed.ok THEN Returned(stdout.s, 0, parsed.val, <<>>)
               ELSE Returned(stdout.s, 0, JUndef, <<>>)
       ELSE machineCatch(stdout)

\* exitZero, stdout: what execSync saw of the load subprocess.  On a non-zero
\* exit execSync throws an error that carries the captured stdout.
runVarlockLoad(in, exitZero, stdout) ==
  IF in.showSummary
  THEN IF exitZero THEN Returned(stdout.s, 0, JUndef, <<>>)
       ELSE summaryCatch(stdout)
  ELSE IF exitZero
       THEN LET parsed == JSONParse(stdout.s)
            IN IF parsed.ok THEN Returned(stdout.s, 0, parsed.val, <<>>)
               ELSE machineCatch(JUndef)
       ELSE machineCatch(stdout)

\* Object.entries(envGraph.config): members of an object, indexed elements of
\* an array, indexed characters of a string, nothing for a number or boolean
ConfigEntries(envGraph) ==
  LET c == Get(envGraph, cConfig)
  IN CASE c.t = "obj" -> ObjectEntries(c)
       [] c.t = "arr" -> [i \in 1..Len(c.kids) |-> [k |-> NumToString(i - 1), v |-> c.kids[i].v]]
       [] c.t = "str" -> [i \in 1..Len(c.s) |-> [k |-> NumToString(i - 1), v |-> JStr(<<c.s[i]>>)]]
       [] OTHER -> <<>>

\* Object.entries(undefined | null) is a TypeError
EntriesThrows(envGraph) == ~IsPresent(Get(envGraph, cConfig))

\* exportEntry with the two calls of the sensitive branch in the other order
exportEntryExportFirst(key, itemInfo) ==
  LET value == String(Get(itemInfo, cValue))
  IN IF IsPresent(Get(itemInfo, cValue))
     THEN IF Truthy(Get(itemInfo, cIsSensitive))
          THEN [calls |-> <<ExportVariable(key, value), SetSecret(value)>>, regularVars |-> 0, secretVars |-> 1]
          ELSE [calls |-> <<ExportVariable(key, value)>>, regularVars |-> 1, secretVars |-> 0]
     ELSE [calls |-> <<>>, regularVars |-> 0, secretVars |-> 0]

\* exportEntry without the `!== null` half of the presence test
exportEntryNullExported(key, itemInfo) ==
  LET value == String(Get(itemInfo, cValue))
  IN IF Get(itemInfo, cValue).t # "undef"
     THEN IF Truthy(Get(itemInfo, cIsSensitive))
          THEN [calls |-> <<SetSecret(value), ExportVariable(key, value)>>, regularVars |-> 0, secretVars |-> 1]
          ELSE [calls |-> <<ExportVariable(key, value)>>, regularVars |-> 1, secretVars |-> 0]
     ELSE [calls |-> <<>>, regularVars |-> 0, secretVars |-> 0]

\* body of the for loop of setEnvironmentVariables
exportEntry(key, itemInfo) ==
  LET value == String(Get(itemInfo, cValue))
  IN IF IsPresent(Get(itemInfo, cValue))
     THEN IF Truthy(Get(itemInfo, cIsSensitive))
          THEN [calls |-> <<SetSecret(value), ExportVariable(key, value)>>, regularVars |-> 0, secretVars |-> 1]
          ELSE [calls |-> <<ExportVariable(key, value)>>, regularVars |-> 1, secretVars |-> 0]
     ELSE [calls |-> <<>>, regularVars |-> 0, secretVars |-> 0]

RECURSIVE SetEnvLoop(_, _, _, _)
\* the for loop of setEnvironmentVariables; reading .value of a null entry throws
SetEnvLoop(entries, acc, regularVars, secretVars) ==
  IF entries = <<>>
  THEN [threw |-> FALSE, calls |-> Append(acc, InfoExported(regularVars, secretVars))]
  ELSE IF ~IsPresent(entries[1].v) THEN [threw |-> TRUE, calls |-> acc]
  ELSE LET r == exportEntry(entries[1].k, entries[1].v)
       IN SetEnvLoop(Tail(entries), acc \o r.calls, regularVars + r.regularVars, secretVars + r.secretVars)

\* setEnvironmentVariables that deletes each value from the graph once exported
setEnvironmentVariablesConsuming(envGraph) ==
  IF EntriesThrows(envGraph) THEN [threw |-> TRUE, calls |-> <<>>, envGraph |-> envGraph]
  ELSE LET r == SetEnvLoop(ConfigEntries(envGraph), <<>>, 0, 0)
           cfg == Get(envGraph, cConfig)
           emptied == [i \in 1..Len(cfg.kids) |-> [k |-> cfg.kids[i].k, v |-> InfoNoValue(FALSE)]]
       IN [threw |-> r.threw, calls |-> r.calls,
           envGraph |-> JObj(DefineProp(envGraph.kids, cConfig, JObj(emptied)))]

\* envGraph in the result is the caller's graph object as the routine leaves
\* it: the routine reads the graph and assigns to none of its members
setEnvironmentVariables(envGraph) ==
  IF EntriesThrows(envGraph) THEN [threw |-> TRUE, calls |-> <<>>, envGraph |-> envGraph]
  ELSE LET r == SetEnvLoop(ConfigEntries(envGraph), <<>>, 0, 0)
       IN [threw |-> r.threw, calls |-> r.calls, envGraph |-> envGraph]

\* body of the for loop of outputJsonBlob
blobEntry(jsonOutput, key, itemInfo) ==
  IF IsPresent(Get(itemInfo, cValue))
  THEN SetProp(jsonOutput, key, Get(itemInfo, cValue))
  ELSE jsonOutput

RECURSIVE JsonBlobLoop(_, _)
\* the for loop of outputJsonBlob, building jsonOutput
JsonBlobLoop(entries, jsonOutput) ==
  IF entries = <<>> THEN [threw |-> FALSE, jsonOutput |-> jsonOutput]
  ELSE IF ~IsPresent(entries[1].v) THEN [threw |-> TRUE, jsonOutput |-> jsonOutput]
  ELSE JsonBlobLoop(Tail(entries), blobEntry(jsonOutput, entries[1].k, entries[1].v))

\* outputJsonBlob that also exports and masks the entries
outputJsonBlobAlsoExports(envGraph) ==
  IF EntriesThrows(envGraph) THEN [threw |-> TRUE, calls |-> <<>>, envGraph |-> envGraph]
  ELSE LET r == JsonBlobLoop(ConfigEntries(envGraph), <<>>)
           e == setEnvironmentVariables(envGraph)
       IN IF r.threw THEN [threw |-> TRUE, calls |-> <<>>, envGraph |-> envGraph]
          ELSE [threw |-> FALSE, envGraph |-> envGraph,
                calls |-> e.calls \o <<SetOutput("json-env", JSONStringify(JObj(r.jsonOutput), 0))>>]

\* envGraph in the result is the caller's graph object as the routine leaves
\* it: values are copied into the local jsonOutput, the graph is only read
outputJsonBlob(envGraph) ==
  IF EntriesThrows(envGraph) THEN [threw |-> TRUE, calls |-> <<>>, envGraph |-> envGraph]
  ELSE LET r == JsonBlobLoop(ConfigEntries(envGraph), <<>>)
       IN IF r.threw THEN [threw |-> TRUE, calls |-> <<>>, envGraph |-> envGraph]
          ELSE [threw |-> FALSE, envGraph |-> envGraph,
                calls |-> <<SetOutput("json-env", JSONStringify(JObj(r.jsonOutput), 0))>>]

\* ------------------------------------------------------------------------
\* run(): one action per step; pc is the position in run.
\*   calls      calls made to the host platform, in order
\*   execs      subprocesses started, in order
\*   hasEnvFiles the local of that name: <<>> until checkForEnvFiles returned
\*   loadResult what runVarlockLoad returned
\*   resolved   the Result Graph the validator resolved during the load
\*   unit       the exported function called on its own, as the unit tests
\*              call it, with its argument and what it returned; NoUnit in run
\* ------------------------------------------------------------------------
\* no function is being called on its own
NoUnit == [fn |-> "", arg |-> <<>>, ret |-> <<>>, threw |-> FALSE, hosts |-> <<>>]

VARIABLES pc, rawInputs, inputs, calls, execs, hasEnvFiles, loadResult, resolved, unit

vars == <<pc, rawInputs, inputs, calls, execs, hasEnvFiles, loadResult, resolved, unit>>

Init ==
  /\ pc = "start"
  /\ rawInputs \in RawInputs
  /\ inputs = getInputs([workingDirectory |-> "", showSummary |-> "", failOnError |-> "", outputFormat |-> ""])
  /\ calls = <<>>
  /\ execs = <<>>
  /\ hasEnvFiles = <<>>
  /\ loadResult = NoResult
  /\ resolved = JUndef
  /\ unit = NoUnit

\* the catch clause of run
ActionFailed == SetFailed("Action failed")

GetInputs ==
  /\ pc = "start"
  /\ inputs' = getInputs(rawInputs)
  /\ pc' = "probe"
  /\ UNCHANGED <<rawInputs, calls, execs, hasEnvFiles, loadResult, resolved, unit>>

\* first availability probe
CheckVarlockInstalled ==
  /\ pc = "probe"
  /\ \E o \in ProbeOutcomes :
       /\ execs' = Append(execs, Exec("varlock --version", o = "exit0", JNull))
       /\ pc' = IF checkVarlockInstalled(o) THEN "files" ELSE "install"
  /\ UNCHANGED <<rawInputs, inputs, calls, hasEnvFiles, loadResult, resolved, unit>>

InstallVarlock ==
  /\ pc = "install"
  /\ \E npmOk, curlOk \in BOOLEAN :
       LET r == installVarlock(npmOk, curlOk)
       IN /\ execs' = execs \o r.execs
          /\ calls' = calls \o r.calls
  /\ pc' = "reprobe"
  /\ UNCHANGED <<rawInputs, inputs, hasEnvFiles, loadResult, resolved, unit>>

\* RecheckVarlockInstalled without the return after setFailed
RecheckVarlockInstalledNoReturn ==
  /\ pc = "reprobe"
  /\ \E o \in ProbeOutcomes :
       /\ execs' = Append(execs, Exec("varlock --version", o = "exit0", JNull))
       /\ pc' = "files"
       /\ IF checkVarlockInstalled(o)
          THEN calls' = calls
          ELSE calls' = Append(calls, SetFailed("Failed to install varlock"))
  /\ UNCHANGED <<rawInputs, inputs, hasEnvFiles, loadResult, resolved, unit>>

\* availability probe after installation
RecheckVarlockInstalled ==
  /\ pc = "reprobe"
  /\ \E o \in ProbeOutcomes :
       /\ execs' = Append(execs, Exec("varlock --version", o = "exit0", JNull))
       /\ IF checkVarlockInstalled(o)
          THEN pc' = "files" /\ calls' = calls
          ELSE pc' = "done" /\ calls' = Append(calls, SetFailed("Failed to install varlock"))
  /\ UNCHANGED <<rawInputs, inputs, hasEnvFiles, loadResult, resolved, unit>>

\* CheckForEnvFiles without the return after setFailed
CheckForEnvFilesNoReturn ==
  /\ pc = "files"
  /\ \E dir \in [readable : BOOLEAN, files : Listings] :
       LET r == checkForEnvFiles(dir)
       IN /\ hasEnvFiles' = <<r.result>>
          /\ pc' = "load"
          /\ IF r.result
             THEN calls' = calls \o r.calls
             ELSE calls' = calls \o r.calls
                             \o <<Warning("No .env files detected"), SetFailed("No environment files found")>>
  /\ UNCHANGED <<rawInputs, inputs, execs, loadResult, resolved, unit>>

CheckForEnvFiles ==
  /\ pc = "files"
  /\ \E dir \in [readable : BOOLEAN, files : Listings] :
       LET r == checkForEnvFiles(dir)
       IN /\ hasEnvFiles' = <<r.result>>
          /\ IF r.result
             THEN pc' = "load" /\ calls' = calls \o r.calls
             ELSE /\ pc' = "done"
                  /\ calls' = calls \o r.calls
                                \o <<Warning("No .env files detected"), SetFailed("No environment files found")>>
  /\ UNCHANGED <<rawInputs, inputs, execs, loadResult, resolved, unit>>

RunVarlockLoad ==
  /\ pc = "load"
  /\ \E o \in (IF inputs.showSummary THEN SummaryOutcomes ELSE MachineOutcomes) :
       LET r == runVarlockLoad(inputs, o.exitZero, o.stdout)
       IN /\ execs' = Append(execs, Exec(loadCommand(inputs), o.exitZero, o.stdout))
          /\ resolved' = o.resolved
          /\ IF r.threw
             THEN /\ pc' = "done"
                  /\ calls' = Append(calls, ActionFailed)
                  /\ loadResult' = loadResult
             ELSE /\ pc' = "outputs"
                  /\ calls' = calls \o r.calls
                  /\ loadResult' = r.result
  /\ UNCHANGED <<rawInputs, inputs, hasEnvFiles, unit>>

\* SetOutputs followed at once by the fail-on-error check, which ends the run
SetOutputsThenFailFast ==
  /\ pc = "outputs"
  /\ LET failing == loadResult.errorCount > 0 /\ inputs.failOnError
     IN /\ calls' = calls \o <<SetOutput("error-count", NumToString(loadResult.errorCount))>>
                          \o (IF inputs.showSummary THEN <<SetOutput("summary", loadResult.output)>> ELSE <<>>)
                          \o (IF failing THEN <<SetFailed("Found validation error(s)")>> ELSE <<>>)
        /\ pc' = IF failing THEN "done" ELSE "export"
  /\ UNCHANGED <<rawInputs, inputs, execs, hasEnvFiles, loadResult, resolved, unit>>

\* SetOutputs that sets the summary output whatever show-summary is
SetOutputsAlwaysSummary ==
  /\ pc = "outputs"
  /\ calls' = calls \o <<SetOutput("error-count", NumToString(loadResult.errorCount)),
                         SetOutput("summary", loadResult.output)>>
  /\ pc' = "export"
  /\ UNCHANGED <<rawInputs, inputs, execs, hasEnvFiles, loadResult, resolved, unit>>

SetOutputs ==
  /\ pc = "outputs"
  /\ calls' = calls \o <<SetOutput("error-count", NumToString(loadResult.errorCount))>>
                    \o (IF inputs.showSummary THEN <<SetOutput("summary", loadResult.output)>> ELSE <<>>)
  /\ pc' = "export"
  /\ UNCHANGED <<rawInputs, inputs, execs, hasEnvFiles, loadResult, resolved, unit>>

\* Export outside any try block: what an export routine raises escapes run
ExportUncaught ==
  /\ pc = "export"
  /\ IF Truthy(loadResult.envGraph)
     THEN CASE inputs.outputFormat = "env" ->
                 LET r == setEnvironmentVariables(loadResult.envGraph)
                 IN /\ loadResult' = [loadResult EXCEPT !.envGraph = r.envGraph]
                    /\ calls' = calls \o r.calls
                    /\ pc' = IF r.threw THEN "done" ELSE "policy"
            [] inputs.outputFormat = "json" ->
                 LET r == outputJsonBlob(loadResult.envGraph)
                 IN /\ loadResult' = [loadResult EXCEPT !.envGraph = r.envGraph]
                    /\ calls' = calls \o r.calls
                    /\ pc' = IF r.threw THEN "done" ELSE "policy"
            [] OTHER -> pc' = "policy" /\ calls' = calls /\ loadResult' = loadResult
     ELSE /\ pc' = "policy"
          /\ loadResult' = loadResult
          /\ calls' = calls \o <<Warning("Could not parse varlock output as json-full")>>
                            \o (IF inputs.outputFormat = "json"
                                THEN <<SetFailed("JSON output format requires valid varlock json-full output")>>
                                ELSE <<>>)
  /\ UNCHANGED <<rawInputs, inputs, execs, hasEnvFiles, resolved, unit>>

Export ==
  /\ pc = "export"
  /\ IF Truthy(loadResult.envGraph)
     THEN CASE inputs.outputFormat = "env" ->
                 LET r == setEnvironmentVariables(loadResult.envGraph)
                 IN /\ loadResult' = [loadResult EXCEPT !.envGraph = r.envGraph]
                    /\ IF r.threw
                       THEN pc' = "done" /\ calls' = calls \o r.calls \o <<ActionFailed>>
                       ELSE pc' = "policy" /\ calls' = calls \o r.calls
            [] inputs.outputFormat = "json" ->
                 LET r == outputJsonBlob(loadResult.envGraph)
                 IN /\ loadResult' = [loadResult EXCEPT !.envGraph = r.envGraph]
                    /\ IF r.threw
                       THEN pc' = "done" /\ calls' = calls \o r.calls \o <<ActionFailed>>
                       ELSE pc' = "policy" /\ calls' = calls \o r.calls
            [] OTHER -> pc' = "policy" /\ calls' = calls /\ loadResult' = loadResult
     ELSE /\ pc' = "policy"
          /\ loadResult' = loadResult
          /\ calls' = calls \o <<Warning("Could not parse varlock output as json-full")>>
                            \o (IF inputs.outputFormat = "json"
                                THEN <<SetFailed("JSON output format requires valid varlock json-full output")>>
                                ELSE <<>>)
  /\ UNCHANGED <<rawInputs, inputs, execs, hasEnvFiles, resolved, unit>>

\* the fail-on-error policy on validation errors
ValidationErrors ==
  /\ pc = "policy"
  /\ calls' = calls \o (IF loadResult.errorCount > 0
                        THEN IF inputs.failOnError
                             THEN <<SetFailed("Found validation error(s)")>>
                             ELSE <<Warning("Found validation error(s)")>>
                        ELSE <<>>)
  /\ pc' = "done"
  /\ UNCHANGED <<rawInputs, inputs, execs, hasEnvFiles, loadResult, resolved, unit>>

Next ==
  \/ GetInputs
  \/ CheckVarlockInstalled
  \/ InstallVarlock
  \/ RecheckVarlockInstalled
  \/ CheckForEnvFiles
  \/ RunVarlockLoad
  \/ SetOutputs
  \/ Export
  \/ ValidationErrors

Spec == Init /\ [][Next]_vars

TypeOK ==
  /\ pc \in {"start", "probe", "install", "reprobe", "files", "load", "outputs", "export", "policy", "done"}
  /\ rawInputs \in RawInputs
  /\ inputs.outputFormat \in {"env", "json", "yaml"}

\* ------------------------------------------------------------------------
\* Observations used by the properties
\* ------------------------------------------------------------------------
CallIdx == 1..Len(calls)

\* setEnvironmentVariables ran to its end (its closing info line was logged)
EnvExportRan == \E i \in CallIdx : calls[i].op = "info"

\* outputJsonBlob ran to its end
JsonBlobRan == \E i \in CallIdx : calls[i].op = "setOutput" /\ calls[i].lit = "json-env"

\* the entries of the graph the load returned, in stored order
Entries == ConfigEntries(loadResult.envGraph)

EntryValue(e) == Get(e.v, cValue)

AbsentValue(v) == v = JUndef \/ v = JNull

IsSensitiveEntry(e) == Get(e.v, cIsSensitive) = JBool(TRUE)

IsPresentEntry(e) == ~AbsentValue(EntryValue(e))

PresentEntries == SelectSeq(Entries, IsPresentEntry)

IsExportCall(c) == c.op = "exportVariable"

IsSecretCall(c) == c.op = "setSecret"

ExportCalls == SelectSeq(calls, IsExportCall)

SecretCalls == SelectSeq(calls, IsSecretCall)

IsPresentSensitive(e) == IsPresentEntry(e) /\ IsSensitiveEntry(e)

\* ------------------------------------------------------------------------
\* C1: once setEnvironmentVariables has run, every present sensitive entry
\* has its string value passed to setSecret strictly before the
\* exportVariable call for its key, and every present non-sensitive entry is
\* exported with no setSecret call made for it (the call before its export is
\* not a setSecret, and there are exactly as many setSecret calls as present
\* sensitive entries).
\* ------------------------------------------------------------------------
C1_MaskBeforeExport ==
  EnvExportRan =>
    /\ \A n \in 1..Len(Entries) :
         LET e == Entries[n]
             text == String(EntryValue(e))
         IN IsPresentEntry(e) =>
              /\ \E j \in CallIdx : calls[j] = ExportVariable(e.k, text)
              /\ \A j \in CallIdx :
                   (IsExportCall(calls[j]) /\ calls[j].name = e.k) =>
                     IF IsSensitiveEntry(e)
                     THEN \E i \in 1..(j - 1) : calls[i] = SetSecret(text)
                     ELSE j > 1 => ~IsSecretCall(calls[j - 1])
    /\ Len(SecretCalls) = Len(SelectSeq(Entries, IsPresentSensitive))

C1_Witness ==
  /\ EnvExportRan
  /\ \E n \in 1..Len(Entries) : IsPresentSensitive(Entries[n])
  /\ \E n \in 1..Len(Entries) : IsPresentEntry(Entries[n]) /\ ~IsSensitiveEntry(Entries[n])

\* ------------------------------------------------------------------------
\* C2: once setEnvironmentVariables has run, the exportVariable calls are
\* exactly one per present-valued entry, in the stored order of config, each
\* with the string conversion of the value; an entry whose value is undefined
\* or null gets no exportVariable call, adds no setSecret call and raises no
\* error.
\* ------------------------------------------------------------------------
C2_ExportsExactlyPresent ==
  EnvExportRan =>
    /\ ExportCalls = [i \in 1..Len(PresentEntries) |->
                        ExportVariable(PresentEntries[i].k, String(EntryValue(PresentEntries[i])))]
    /\ \A n \in 1..Len(Entries) :
         AbsentValue(EntryValue(Entries[n])) =>
           \A j \in CallIdx : IsExportCall(calls[j]) => calls[j].name # Entries[n].k
    /\ Len(SecretCalls) <= Len(PresentEntries)
    /\ \A j \in CallIdx : calls[j] # ActionFailed

C2_Witness ==
  /\ EnvExportRan
  /\ \E n \in 1..Len(Entries) : EntryValue(Entries[n]) = JUndef
  /\ \E n \in 1..Len(Entries) : IsPresentEntry(Entries[n])

\* ------------------------------------------------------------------------
\* C3: once outputJsonBlob has run, json-env was set once, to the JSON text
\* of the mapping from every present-valued key of config to its raw value.
\* ------------------------------------------------------------------------
ExpectedBlob ==
  JObj([i \in 1..Len(PresentEntries) |-> [k |-> PresentEntries[i].k, v |-> EntryValue(PresentEntries[i])]])

C3_BlobOfPresentEntries ==
  JsonBlobRan =>
    /\ Cardinality({i \in CallIdx : calls[i].op = "setOutput" /\ calls[i].lit = "json-env"}) = 1
    /\ \A i \in CallIdx :
         (calls[i].op = "setOutput" /\ calls[i].lit = "json-env") =>
           calls[i].value = JSONStringify(ExpectedBlob, 0)

ExecIdx == 1..Len(execs)

IsLoadExec(x) == x.cmd \in {LoadSummary, LoadJsonFull}

IsFailedCall(c) == c.op = "setFailed"

IsOutputCall(c) == c.op = "setOutput"

\* a Result Graph: an object whose config is an object of objects
IsResultGraph(v) ==
  /\ v.t = "obj"
  /\ Get(v, cConfig).t = "obj"
  /\ \A n \in 1..Len(Get(v, cConfig).kids) : Get(v, cConfig).kids[n].v.t = "obj"

\* ------------------------------------------------------------------------
\* C4: a run with output format env whose load subprocess exited zero ends
\* with every present-valued entry of the resolved configuration exported,
\* and every sensitive one also registered with setSecret, whatever
\* show-summary is.
\* ------------------------------------------------------------------------
C4_SuccessfulEnvRunExports ==
  (/\ pc = "done"
   /\ inputs.outputFormat = "env"
   /\ \E i \in ExecIdx : IsLoadExec(execs[i]) /\ execs[i].exitZero)
  => \A n \in 1..Len(ConfigEntries(resolved)) :
       LET e == ConfigEntries(resolved)[n]
           text == String(EntryValue(e))
       IN IsPresentEntry(e) =>
            /\ \E j \in CallIdx : calls[j] = ExportVariable(e.k, text)
            /\ IsSensitiveEntry(e) => \E j \in CallIdx : calls[j] = SetSecret(text)

\* ------------------------------------------------------------------------
\* C5: when the json-full load exited non-zero with stdout that parses as a
\* Result Graph, the returned envGraph is defined and errorCount >= 1.
\* ------------------------------------------------------------------------
C5_PartialGraphHasErrorCount ==
  \A i \in ExecIdx :
    (/\ execs[i].cmd = LoadJsonFull
     /\ ~execs[i].exitZero
     /\ execs[i].stdout.t = "str"
     /\ JSONParse(execs[i].stdout.s).ok
     /\ IsResultGraph(JSONParse(execs[i].stdout.s).val))
    => /\ loadResult.envGraph # JUndef
       /\ loadResult.errorCount >= 1

\* ------------------------------------------------------------------------
\* C6: when the json-full load exited non-zero with non-empty stdout that does
\* not parse, runVarlockLoad returns that text and no graph, and the run is
\* marked failed on that account only with output format json: with another
\* format (env) and no failing validation-error policy, no setFailed call is
\* made from the load onwards.
\* ------------------------------------------------------------------------
UnparseableLoad(x) ==
  /\ x.cmd = LoadJsonFull
  /\ ~x.exitZero
  /\ x.stdout.t = "str"
  /\ x.stdout.s # <<>>
  /\ ~JSONParse(x.stdout.s).ok

C6_UnparseableIsOnlyWarning ==
  \A i \in ExecIdx :
    UnparseableLoad(execs[i]) =>
      /\ loadResult.output = execs[i].stdout.s
      /\ loadResult.envGraph = JUndef
      /\ (/\ pc = "done"
          /\ inputs.outputFormat # "json"
          /\ ~(inputs.failOnError /\ loadResult.errorCount > 0))
         => \A j \in CallIdx : IsFailedCall(calls[j]) => calls[j] = SetFailed("Failed to install varlock")

\* ------------------------------------------------------------------------
\* C7: when a load subprocess (summary or json-full) failed with absent or
\* empty stdout, runVarlockLoad returned nothing and run ended by marking the
\* run failed with the 'Action failed' message, with no output set and
\* nothing exported or masked.
\* ------------------------------------------------------------------------
C7_HardFaultPropagates ==
  \A i \in ExecIdx :
    (IsLoadExec(execs[i]) /\ ~execs[i].exitZero /\ execs[i].stdout \in {JNull, JStr(<<>>)})
    => /\ pc = "done"
       /\ loadResult = NoResult
       /\ calls # <<>> /\ calls[Len(calls)] = ActionFailed
       /\ \A j \in CallIdx : ~IsOutputCall(calls[j]) /\ ~IsExportCall(calls[j]) /\ ~IsSecretCall(calls[j])

C7_Witness ==
  \E i \in ExecIdx :
    execs[i].cmd = LoadSummary /\ ~execs[i].exitZero /\ execs[i].stdout \in {JNull, JStr(<<>>)}

\* ------------------------------------------------------------------------
\* C8: a finished run whose load returned a Result Graph with errorCount > 0
\* is marked failed exactly when fail-on-error is true; with fail-on-error
\* false the validation errors give a warning and the graph was exported.
\* ------------------------------------------------------------------------
C8_FailOnErrorPolicy ==
  (pc = "done" /\ IsResultGraph(loadResult.envGraph) /\ loadResult.errorCount > 0)
  => /\ (\E j \in CallIdx : IsFailedCall(calls[j])) <=> inputs.failOnError
     /\ ~inputs.failOnError =>
          /\ \E j \in CallIdx : calls[j] = Warning("Found validation error(s)")
          /\ EnvExportRan \/ JsonBlobRan

BothInstallsFailed == \E i \in ExecIdx : execs[i].cmd = CurlInstall /\ ~execs[i].exitZero

C10_InstallFailureStopsRun ==
  BothInstallsFailed =>
    /\ \E j \in CallIdx : IsFailedCall(calls[j])
    /\ pc \in {"reprobe", "done"}
    /\ hasEnvFiles = <<>>
    /\ \A i \in ExecIdx : ~IsLoadExec(execs[i])
    /\ ~EnvExportRan /\ ~JsonBlobRan

\* ------------------------------------------------------------------------
\* The exported functions called on their own, one call per behaviour, as
\* the unit tests of the repository call them.  unit holds the function, its
\* argument, what it returned, whether it threw and, for the two export
\* routines, the state of the host platform after each call.
\* ------------------------------------------------------------------------
\* values core.getInput can hand to getInputs ("" when the input is not set)
UnitRawInputs ==
  [ workingDirectory : {"", "sub"},
    showSummary : {"", "true", "false", "TRUE"},
    failOnError : {"", "true", "false", "1"},
    outputFormat : {"", "json", "yaml"} ]

UnitCall(fn, arg) == [fn |-> fn, arg |-> arg, ret |-> <<>>, threw |-> FALSE, hosts |-> <<>>]

\* what the host platform holds: exported environment variables, outputs and
\* the values registered for masking
HostInit == [env |-> <<>>, outputs |-> <<>>, masked |-> {}]

\* hostApply where a second export or output of a name appends to its value
hostApplyAppending(host, c) ==
  LET old(kids, key) == IF \E i \in 1..Len(kids) : kids[i].k = key
                        THEN kids[CHOOSE i \in 1..Len(kids) : kids[i].k = key].v
                        ELSE <<>>
  IN CASE c.op = "exportVariable" ->
            [host EXCEPT !.env = DefineProp(@, c.name, old(@, c.name) \o c.value)]
       [] c.op = "setOutput" ->
            [host EXCEPT !.outputs = DefineProp(@, c.lit, old(@, c.lit) \o c.value)]
       [] c.op = "setSecret" -> [host EXCEPT !.masked = @ \cup {c.value}]
       [] OTHER -> host

\* effect of one call on the host platform: exportVariable and setOutput
\* overwrite the value of their name, setSecret adds to the masked values
hostApply(host, c) ==
  CASE c.op = "exportVariable" -> [host EXCEPT !.env = DefineProp(@, c.name, c.value)]
    [] c.op = "setOutput" -> [host EXCEPT !.outputs = DefineProp(@, c.lit, c.value)]
    [] c.op = "setSecret" -> [host EXCEPT !.masked = @ \cup {c.value}]
    [] OTHER -> host

RECURSIVE HostAfter(_, _)
HostAfter(host, cs) ==
  IF cs = <<>> THEN host ELSE HostAfter(hostApply(host, cs[1]), Tail(cs))

\* the host platform as the last call of the export routine left it
LastHost == IF unit.hosts = <<>> THEN HostInit ELSE unit.hosts[Len(unit.hosts)]

InitUnit ==
  /\ pc = "call"
  /\ rawInputs = [workingDirectory |-> "", showSummary |-> "", failOnError |-> "", outputFormat |-> ""]
  /\ inputs = getInputs(rawInputs)
  /\ calls = <<>>
  /\ execs = <<>>
  /\ hasEnvFiles = <<>>
  /\ loadResult = NoResult
  /\ resolved = JUndef
  /\ \/ \E raw \in UnitRawInputs : unit = UnitCall("getInputs", raw)
     \/ \E o \in ProbeOutcomes : unit = UnitCall("checkVarlockInstalled", o)
     \/ \E dir \in [readable : BOOLEAN, files : Listings] : unit = UnitCall("checkForEnvFiles", dir)
     \/ \E npmOk, curlOk \in BOOLEAN :
          unit = UnitCall("installVarlock", [npmOk |-> npmOk, curlOk |-> curlOk])
     \/ \E in \in {getInputs(raw) : raw \in RawInputs} :
          \E o \in (IF in.showSummary THEN SummaryOutcomes ELSE MachineOutcomes) :
            unit = UnitCall("runVarlockLoad", [in |-> in, o |-> o])
     \/ \E g \in Graphs : unit = UnitCall("setEnvironmentVariables", g)
     \/ \E g \in Graphs : unit = UnitCall("outputJsonBlob", g)

UnitGetInputs ==
  /\ pc = "call" /\ unit.fn = "getInputs"
  /\ unit' = [unit EXCEPT !.ret = getInputs(unit.arg)]
  /\ pc' = "returned"
  /\ UNCHANGED <<rawInputs, inputs, calls, execs, hasEnvFiles, loadResult, resolved>>

UnitCheckVarlockInstalled ==
  /\ pc = "call" /\ unit.fn = "checkVarlockInstalled"
  /\ execs' = <<Exec("varlock --version", unit.arg = "exit0", JNull)>>
  /\ unit' = [unit EXCEPT !.ret = checkVarlockInstalled(unit.arg)]
  /\ pc' = "returned"
  /\ UNCHANGED <<rawInputs, inputs, calls, hasEnvFiles, loadResult, resolved>>

UnitCheckForEnvFiles ==
  /\ pc = "call" /\ unit.fn = "checkForEnvFiles"
  /\ LET r == checkForEnvFiles(unit.arg)
     IN /\ calls' = r.calls
        /\ unit' = [unit EXCEPT !.ret = r.result]
  /\ pc' = "returned"
  /\ UNCHANGED <<rawInputs, inputs, execs, hasEnvFiles, loadResult, resolved>>

UnitInstallVarlock ==
  /\ pc = "call" /\ unit.fn = "installVarlock"
  /\ LET r == installVarlock(unit.arg.npmOk, unit.arg.curlOk)
     IN /\ execs' = r.execs
        /\ calls' = r.calls
  /\ pc' = "returned"
  /\ UNCHANGED <<rawInputs, inputs, hasEnvFiles, loadResult, resolved, unit>>

UnitRunVarlockLoad ==
  /\ pc = "call" /\ unit.fn = "runVarlockLoad"
  /\ LET r == runVarlockLoad(unit.arg.in, unit.arg.o.exitZero, unit.arg.o.stdout)
     IN /\ execs' = <<Exec(loadCommand(unit.arg.in), unit.arg.o.exitZero, unit.arg.o.stdout)>>
        /\ calls' = r.calls
        /\ unit' = [unit EXCEPT !.ret = r.result, !.threw = r.threw]
  /\ pc' = "returned"
  /\ UNCHANGED <<rawInputs, inputs, hasEnvFiles, loadResult, resolved>>

\* first call, and a second call with the same graph
UnitSetEnvironmentVariables ==
  /\ pc \in {"call", "returned"} /\ unit.fn = "setEnvironmentVariables"
  /\ LET r == setEnvironmentVariables(unit.arg)
     IN /\ calls' = calls \o r.calls
        /\ unit' = [unit EXCEPT !.threw = r.threw, !.hosts = Append(@, HostAfter(LastHost, r.calls))]
  /\ pc' = IF pc = "call" THEN "returned" ELSE "returnedTwice"
  /\ UNCHANGED <<rawInputs, inputs, execs, hasEnvFiles, loadResult, resolved>>

\* first call, and a second call with the same graph
UnitOutputJsonBlob ==
  /\ pc \in {"call", "returned"} /\ unit.fn = "outputJsonBlob"
  /\ LET r == outputJsonBlob(unit.arg)
     IN /\ calls' = calls \o r.calls
        /\ unit' = [unit EXCEPT !.threw = r.threw, !.hosts = Append(@, HostAfter(LastHost, r.calls))]
  /\ pc' = IF pc = "call" THEN "returned" ELSE "returnedTwice"
  /\ UNCHANGED <<rawInputs, inputs, execs, hasEnvFiles, loadResult, resolved>>

NextUnit ==
  \/ UnitGetInputs
  \/ UnitCheckVarlockInstalled
  \/ UnitCheckForEnvFiles
  \/ UnitInstallVarlock
  \/ UnitRunVarlockLoad
  \/ UnitSetEnvironmentVariables
  \/ UnitOutputJsonBlob

SpecUnit == InitUnit /\ [][NextUnit]_vars

Returned1(fn) == unit.fn = fn /\ pc = "returned"

\* ------------------------------------------------------------------------
\* C11: checkForEnvFiles called on a readable directory returns true exactly
\* when some entry is named '.env' or has a name beginning with '.env.'; it
\* returns false for an empty directory and for a directory holding only
\* names such as '.envrc' and 'env'.
\* ------------------------------------------------------------------------
NamedDotEnv(file) == file = <<".","e","n","v">>

BeginsWithDotEnvDot(file) == Len(file) >= 5 /\ SubSeq(file, 1, 5) = <<".","e","n","v",".">>

C11_DetectsEnvFiles ==
  (Returned1("checkForEnvFiles") /\ unit.arg.readable) =>
    LET files == unit.arg.files
    IN /\ unit.ret = (\E i \in 1..Len(files) : NamedDotEnv(files[i]) \/ BeginsWithDotEnvDot(files[i]))
       /\ files = <<>> => unit.ret = FALSE
       /\ (\A i \in 1..Len(files) : files[i] \in {<<".","e","n","v","r","c">>, <<"e","n","v">>})
            => unit.ret = FALSE
       /\ ~unit.threw

C11_Witness ==
  /\ Returned1("checkForEnvFiles")
  /\ unit.arg = [readable |-> TRUE, files |-> << <<".","e","n","v","r","c">>, <<".","e","n","v",".","x">> >>]
  /\ unit.ret = TRUE

\* ------------------------------------------------------------------------
\* C12: in every run the output 'summary' is set only if show-summary is
\* true, the output 'json-env' is set only if the output format is json, and
\* once the load has returned a result the output 'error-count' has been set,
\* once, to the decimal string of the returned errorCount.
\* ------------------------------------------------------------------------
\* runVarlockLoad throws on this subprocess outcome
LoadThrows(x) ==
  \/ ~x.exitZero /\ ~Truthy(x.stdout)
  \/ x.exitZero /\ x.cmd = LoadJsonFull /\ ~JSONParse(x.stdout.s).ok

\* the load has returned and run has set its outputs
LoadReturned ==
  \/ pc \in {"export", "policy"}
  \/ pc = "done" /\ \E i \in ExecIdx : IsLoadExec(execs[i]) /\ ~LoadThrows(execs[i])

DigitValue(ch) == CHOOSE d \in 0..9 : DigitChar(d) = ch

RECURSIVE DecimalValue(_)
DecimalValue(s) ==
  IF s = <<>> THEN 0 ELSE 10 * DecimalValue(SubSeq(s, 1, Len(s) - 1)) + DigitValue(s[Len(s)])

\* s is the decimal string of n
IsDecimalOf(s, n) ==
  /\ s # <<>>
  /\ \A i \in 1..Len(s) : s[i] \in Digits
  /\ Len(s) > 1 => s[1] # "0"
  /\ DecimalValue(s) = n

OutputCallsOf(lit) == {j \in CallIdx : IsOutputCall(calls[j]) /\ calls[j].lit = lit}

C12_OutputsSetAsDocumented ==
  /\ OutputCallsOf("summary") # {} => (inputs.showSummary /\ rawInputs.showSummary = "true")
  /\ OutputCallsOf("json-env") # {} => inputs.outputFormat = "json"
  /\ LoadReturned =>
       /\ Cardinality(OutputCallsOf("error-count")) = 1
       /\ \A j \in OutputCallsOf("error-count") : IsDecimalOf(calls[j].value, loadResult.errorCount)

C12_Witness ==
  /\ pc = "done"
  /\ LoadReturned
  /\ loadResult.errorCount > 1
  /\ OutputCallsOf("summary") # {}
  /\ OutputCallsOf("error-count") # {}

\* ------------------------------------------------------------------------
\* C13: every run that started a load subprocess started one with the
\* json-full format, whatever show-summary is; with show-summary true the
\* human-readable load is run as well as the json-full load, so that a
\* finished load stage counts two load subprocesses.
\* ------------------------------------------------------------------------
LoadExecs == {i \in ExecIdx : IsLoadExec(execs[i])}

C13_AlwaysLoadsJsonFull ==
  LoadExecs # {} =>
    /\ \E i \in LoadExecs : execs[i].cmd = LoadJsonFull
    /\ inputs.showSummary =>
         /\ \E i \in LoadExecs : execs[i].cmd = LoadSummary
         /\ Cardinality(LoadExecs) = 2

C15_ProbeNeverThrows ==
  (unit.fn = "checkVarlockInstalled" /\ pc # "call") =>
    /\ pc = "returned"
    /\ ~unit.threw
    /\ unit.ret \in BOOLEAN
    /\ unit.ret = (unit.arg = "exit0")
    /\ unit.arg \in {"nonzero", "enoent", "timeout"} => unit.ret = FALSE
    /\ Len(execs) = 1 /\ execs[1].cmd = "varlock --version" /\ execs[1].exitZero = unit.ret
    /\ calls = <<>>

C15_Witness ==
  /\ Returned1("checkVarlockInstalled")
  /\ unit.arg = "timeout"
  /\ unit.ret = FALSE

\* ------------------------------------------------------------------------
\* C16: checkForEnvFiles called on a directory that cannot be listed returns
\* false and does not throw; its only effect is one warning log line.
\* ------------------------------------------------------------------------
C16_UnreadableDirIsFalse ==
  (unit.fn = "checkForEnvFiles" /\ pc # "call" /\ ~unit.arg.readable) =>
    /\ pc = "returned"
    /\ unit.ret = FALSE
    /\ ~unit.threw
    /\ calls = <<Warning("Error reading directory")>>
    /\ execs = <<>>

C16_Witness ==
  /\ Returned1("checkForEnvFiles")
  /\ ~unit.arg.readable
  /\ unit.arg.files = << <<".","e","n","v">> >>
  /\ unit.ret = FALSE

ErrorOccurrences(t) ==
  {i \in 1..Len(t) :
     /\ i + 4 <= Len(t)
     /\ \E w \in [1..5 -> {"e","E","r","R","o","O"}] :
          /\ w[1] \in {"e","E"} /\ w[2] \in {"r","R"} /\ w[3] \in {"r","R"}
          /\ w[4] \in {"o","O"} /\ w[5] \in {"r","R"}
          /\ SubSeq(t, i, i + 4) = w}

SummaryCall == unit.fn = "runVarlockLoad" /\ unit.arg.in.showSummary

C18_SummaryModeLoad ==
  (SummaryCall /\ pc = "returned") =>
    LET o == unit.arg.o
    IN /\ Len(execs) = 1 /\ execs[1].cmd = "varlock load"
       /\ unit.ret.envGraph = JUndef
       /\ o.exitZero =>
            /\ ~unit.threw
            /\ unit.ret.output = o.stdout.s
            /\ unit.ret.errorCount = 0
       /\ (~o.exitZero /\ o.stdout.t = "str" /\ o.stdout.s # <<>>) =>
            /\ ~unit.threw
            /\ unit.ret.output = o.stdout.s
            /\ unit.ret.errorCount = Cardinality(ErrorOccurrences(o.stdout.s))

C18_Witness ==
  /\ SummaryCall /\ pc = "returned"
  /\ ~unit.arg.o.exitZero
  /\ unit.ret.errorCount = 2
  /\ unit.arg.o.resolved # JUndef

\* ------------------------------------------------------------------------
\* C19: installVarlock starts the npm global install first and starts the
\* fallback install script only if the npm install failed; it starts at most
\* two installation subprocesses, marks the run failed only when both failed,
\* and does not throw.
\* ------------------------------------------------------------------------
C19_InstallFallbackOrder ==
  (unit.fn = "installVarlock" /\ pc # "call") =>
    /\ pc = "returned"
    /\ ~unit.threw
    /\ Len(execs) \in {1, 2}
    /\ execs[1].cmd = "npm install -g varlock" /\ execs[1].exitZero = unit.arg.npmOk
    /\ Len(execs) = 2 =>
         /\ ~execs[1].exitZero
         /\ execs[2].cmd = "curl -fsSL install.sh | sh" /\ execs[2].exitZero = unit.arg.curlOk
    /\ (\E j \in CallIdx : IsFailedCall(calls[j])) =>
         (Len(execs) = 2 /\ ~execs[1].exitZero /\ ~execs[2].exitZero)
    /\ Len(calls) <= 1

C19_Witness ==
  /\ Returned1("installVarlock")
  /\ Len(execs) = 2
  /\ ~execs[2].exitZero
  /\ calls = <<SetFailed("Failed to install varlock")>>

\* ------------------------------------------------------------------------
\* C20: in every run the subprocesses are started one after another in stage
\* order: installation is attempted at most once and only right after an
\* availability probe that returned false; the load subprocess is started at
\* most once, as the last subprocess, only after an availability probe that
\* returned true and after env-file detection returned true; an export
\* routine is invoked only after the load returned an envGraph, and one that
\* ran to its end was given a Result Graph.
\* ------------------------------------------------------------------------
IsProbeExec(x) == x.cmd = "varlock --version"

IsInstallExec(x) == x.cmd \in {NpmInstall, CurlInstall}

\* an export routine was invoked: it made a call, or it threw after the
\* outputs of the load had been set
ExportInvoked ==
  \/ \E j \in CallIdx : calls[j].op \in {"exportVariable", "setSecret", "info"}
  \/ OutputCallsOf("json-env") # {}
  \/ pc = "done" /\ OutputCallsOf("error-count") # {} /\ calls[Len(calls)] = ActionFailed

C21_ExportShapesExclusive ==
  /\ OutputCallsOf("json-env") # {} =>
       \A j \in CallIdx : ~IsSecretCall(calls[j]) /\ ~IsExportCall(calls[j]) /\ calls[j].op # "info"
  /\ inputs.outputFormat = "json" =>
       \A j \in CallIdx : ~IsSecretCall(calls[j]) /\ ~IsExportCall(calls[j])
  /\ inputs.outputFormat = "env" => OutputCallsOf("json-env") = {}

\* a sensitive value was published in json-env
C21_Witness ==
  /\ pc = "done"
  /\ inputs.outputFormat = "json"
  /\ \E n \in 1..Len(Entries) : IsPresentSensitive(Entries[n]) /\ Entries[n].k = <<"A">>
  /\ \E j \in OutputCallsOf("json-env") : calls[j].value # <<"{", "}">>

\* ------------------------------------------------------------------------
\* C22: the Result Graph returned by runVarlockLoad is never modified
\* afterwards: every step of run after the load (setting the outputs, the
\* export routine, the validation-error policy) leaves the returned graph,
\* with its sources, settings and config, as it was, and a returned Result
\* Graph is at every later point the graph the validator printed.
\* ------------------------------------------------------------------------
C22_GraphNeverModified ==
  /\ [][(pc \in {"outputs", "export", "policy"}) => (loadResult' = loadResult)]_vars
  /\ []((pc \in {"outputs", "export", "policy", "done"} /\ IsResultGraph(loadResult.envGraph))
          => loadResult.envGraph = resolved)

C22_Witness ==
  /\ pc = "done"
  /\ EnvExportRan
  /\ Get(loadResult.envGraph, cSources) = RichSources[1]
  /\ Get(loadResult.envGraph, cSettings) = RichSources[2]
  /\ \E n \in 1..Len(Entries) : IsPresentSensitive(Entries[n])

\* ------------------------------------------------------------------------
\* C23: when the json-full load subprocess exits zero with stdout that does
\* not parse as JSON, runVarlockLoad returns nothing (the parse error is
\* rethrown): the load step ends the run, marked failed with the 'Action
\* failed' message, with no output set, error-count included, and nothing
\* exported or masked; and a run that has ended takes no further step.
\* ------------------------------------------------------------------------
ZeroExitUnparseable(x) == x.cmd = LoadJsonFull /\ x.exitZero /\ ~JSONParse(x.stdout.s).ok

\* the run is over with 'Action failed' and has set or exported nothing
FailedWithNothingSet ==
  /\ pc = "done"
  /\ loadResult = NoResult
  /\ calls[Len(calls)] = ActionFailed
  /\ \A j \in CallIdx :
       /\ ~IsOutputCall(calls[j]) /\ ~IsExportCall(calls[j]) /\ ~IsSecretCall(calls[j])
       /\ calls[j].op \notin {"info", "warning"}

C23_ZeroExitUnparseableFails ==
  /\ [][(pc = "load" /\ ZeroExitUnparseable(execs'[Len(execs')])) => FailedWithNothingSet']_vars
  /\ [][pc # "done"]_vars

C23_Witness ==
  /\ pc = "done"
  /\ \E i \in LoadExecs :
       /\ ZeroExitUnparseable(execs[i])
       /\ execs[i].stdout.s = <<"{", Quote, "c","o","n","f","i","g", Quote>>

\* ------------------------------------------------------------------------
\* C24: in a finished run whose load returned a parsed Result Graph with
\* errorCount > 0 and with fail-on-error true, the validation-error setFailed
\* is the last call of the run and the export was made before it: with output
\* format env every present-valued entry was exported (and the routine ran to
\* its end), with output format json json-env was set.
\* ------------------------------------------------------------------------
FailingValidationRun ==
  /\ pc = "done"
  /\ IsResultGraph(loadResult.envGraph)
  /\ loadResult.errorCount > 0
  /\ inputs.failOnError

Rank(p) ==
  CASE p = "start" -> 0
    [] p = "probe" -> 1
    [] p = "install" -> 2
    [] p = "reprobe" -> 3
    [] p = "files" -> 4
    [] p = "load" -> 5
    [] p = "outputs" -> 6
    [] p = "export" -> 7
    [] p = "policy" -> 8
    [] p = "done" -> 9

\* the load being recorded raises
LoadRaises ==
  /\ pc = "load"
  /\ LET x == execs'[Len(execs')]
     IN runVarlockLoad(inputs, x.exitZero, x.stdout).threw

\* the export routine being called raises
ExportRaises ==
  /\ pc = "export"
  /\ Truthy(loadResult.envGraph)
  /\ \/ inputs.outputFormat = "env" /\ setEnvironmentVariables(loadResult.envGraph).threw
     \/ inputs.outputFormat = "json" /\ outputJsonBlob(loadResult.envGraph).threw

C25_RunNeverThrows ==
  /\ [][(LoadRaises \/ ExportRaises) => (pc' = "done" /\ calls'[Len(calls')] = ActionFailed)]_vars
  /\ [][Rank(pc') > Rank(pc)]_vars

\* an export routine raised after error-count was set, and the run ended failed
C25_Witness ==
  /\ pc = "done"
  /\ calls[Len(calls)] = ActionFailed
  /\ OutputCallsOf("error-count") # {}
  /\ Truthy(loadResult.envGraph)
  /\ inputs.outputFormat = "env"

\* ------------------------------------------------------------------------
\* C26: when the output-format input is a non-empty value other than env and
\* json and the load returned a parsed Result Graph, the run exports no
\* variable, registers no secret, sets no json-env output and logs no export
\* count; it gives no 'Could not parse' warning and no 'JSON output format'
\* failure, and once finished it is marked failed exactly when the
\* installation failed or validation errors meet fail-on-error.
\* ------------------------------------------------------------------------
UnknownFormatWithGraph ==
  /\ rawInputs.outputFormat \notin {"", "env", "json"}
  /\ pc \in {"outputs", "export", "policy", "done"}
  /\ IsResultGraph(loadResult.envGraph)

C26_UnknownFormatExportsNothing ==
  UnknownFormatWithGraph =>
    /\ inputs.outputFormat = rawInputs.outputFormat
    /\ \A j \in CallIdx :
         /\ ~IsExportCall(calls[j])
         /\ ~IsSecretCall(calls[j])
         /\ calls[j].op # "info"
         /\ calls[j].lit \notin {"json-env",
                                 "Could not parse varlock output as json-full",
                                 "JSON output format requires valid varlock json-full output"}
         /\ calls[j].op = "warning" => calls[j].lit = "Found validation error(s)"
    /\ pc = "done" =>
         ((\E j \in CallIdx : IsFailedCall(calls[j]))
            <=> \/ \E j \in CallIdx : calls[j] = SetFailed("Failed to install varlock")
                \/ loadResult.errorCount > 0 /\ inputs.failOnError)

C26_Witness ==
  /\ pc = "done"
  /\ UnknownFormatWithGraph
  /\ \E n \in 1..Len(PresentEntries) : IsSensitiveEntry(PresentEntries[n])
  /\ \A j \in CallIdx : ~IsFailedCall(calls[j])

=============================================================================
